---- MODULE Spec2Model ----
(***************************************************************************)
(* One client session of the remote CAN server                             *)
(* (can/interfaces/remote/server.py, class ClientBusConnection).           *)
(*                                                                         *)
(* Two threads of the server work on the session: the request handler      *)
(* thread (setup, handle, _receive_from_client, finish) and the            *)
(* "Send to client" thread (_send_to_client).  The client and the CAN bus  *)
(* are the environment: the client puts events on the socket, the bus      *)
(* adapter answers open/send/recv with success or failure.                 *)
(***************************************************************************)
EXTENDS Integers, Sequences, FiniteSets, TLC

\* ------------------------------------------------------------------ bounds
MaxRelayEvents == 2     \* events the client sends after the two handshake events
MaxBusFrames == 2       \* frames the bus delivers to the session
MaxSessions == 2        \* sessions of one server, where several are followed

\* --------------------------------------------------------------- constants
PROTOCOL_VERSION == 1

Versions == {PROTOCOL_VERSION, PROTOCOL_VERSION + 1}
RequestBitrates == {5}
ServerBitrates == {0}             \* 0: the server configuration fixes no bitrate
\* where several sessions of one server are followed
SessionIds == 1..MaxSessions
SharedServerBitrates == {0, 9}
SessionRequestBitrates == {5, 6}
Ids == {1, 2}                     \* arbitration ids
Payloads == {1, 2}
\* the periodic transmissions a client asks for: <<arbitration id, payload>>
PeriodicStarts == {<<1, 1>>, <<1, 2>>, <<2, 1>>}
PeriodicStops == {1}

\* ------------------------------------------------------------------ events
Ev(t, v, b, i, d) == [type |-> t, version |-> v, bitrate |-> b, id |-> i, data |-> d]

BusRequest(v, b) == Ev("BusRequest", v, b, 0, 0)
FilterConfig == Ev("FilterConfig", 0, 0, 0, 0)
BusResponse == Ev("BusResponse", 0, 0, 0, 0)
CanMessage(i, d) == Ev("CanMessage", 0, 0, i, d)
PeriodicMessageStart(i, d) == Ev("PeriodicMessageStart", 0, 0, i, d)
PeriodicMessageStop(i) == Ev("PeriodicMessageStop", 0, 0, i, 0)
ConnectionClosed == Ev("ConnectionClosed", 0, 0, 0, 0)
RemoteException == Ev("RemoteException", 0, 0, 0, 0)
TransmitFail == Ev("TransmitFail", 0, 0, 0, 0)
NoEvent == Ev("None", 0, 0, 0, 0)

\* what a client may put on the socket as its first, its second and its later events
FirstEvents == {BusRequest(v, b) : v \in Versions, b \in RequestBitrates} \cup {FilterConfig}
SecondEvents == {FilterConfig, ConnectionClosed}
RelayEvents ==
    {CanMessage(1, d) : d \in Payloads}
    \cup {PeriodicMessageStart(m[1], m[2]) : m \in PeriodicStarts}
    \cup {PeriodicMessageStop(i) : i \in PeriodicStops}
    \cup {ConnectionClosed}

VARIABLES
    sent,           \* every event the client has put on the socket, in order
    taken,          \* how many of them _next_event() has returned
    serverConfig,   \* self.server.config (the bitrate)
    sess,           \* further sessions of the server: their handshake position,
                    \* self.config (the bitrate), the bitrate of their BusRequest
                    \* and the bitrate their bus was opened with
    config,         \* self.config (the bitrate)
    bus,            \* self.bus: "None" or "open"
    openLog,        \* the calls of can.interface.Bus: [bitrate, ok]
    clients,        \* occurrences of the session in self.server.clients
    stop_event,     \* self.stop_event
    send_tasks,     \* self.send_tasks: id -> index into tasks, 0 when absent
    tasks,          \* the periodic tasks the bus adapter created: [id, data, stopped]
    outbuf,         \* the connection's outbound accumulator (events queued)
    wire,           \* the events written to the socket by sendall, in order
    busSent,        \* the calls of bus.send: [id, data, ok]
    busFrames,      \* frames bus.recv has returned so far
    recvErr,        \* bus.recv has raised CanError
    polledAfterErr, \* bus.recv was called again after it raised
    shutdowns,      \* calls of bus.shutdown
    hpc,            \* position of the request handler thread
    exc,            \* the exception that left handle(), "none" without one
    spc,            \* position of the "Send to client" thread
    event,          \* _send_to_client's local variable event
    client_ready    \* _send_to_client's local variable client_ready

vars == <<sent, taken, serverConfig, sess, config, bus, openLog, clients, stop_event,
          send_tasks, tasks, outbuf, wire, busSent, busFrames, recvErr, polledAfterErr,
          shutdowns, hpc, exc, spc, event, client_ready>>

clientVars == <<sent>>
inVars == <<taken>>
cfgVars == <<serverConfig, sess, config>>
busVars == <<bus, openLog, busSent, busFrames, recvErr, polledAfterErr, shutdowns>>
taskVars == <<send_tasks, tasks>>
outVars == <<outbuf, wire>>
sendThreadVars == <<spc, event, client_ready>>

\* ----------------------------------------------------------------- helpers
\* positions at which the handler thread is inside _next_event()
NextEventPcs == {"hs_request", "hs_filter", "rx_event"}

InitWith(bitrates) ==
    /\ sent = <<>>
    /\ taken = 0
    /\ serverConfig \in bitrates
    /\ sess = [s \in SessionIds |-> [pc |-> "setup", config |-> 0, request |-> 0,
                                     opened |-> 0]]
    /\ config = 0
    /\ bus = "None"
    /\ openLog = <<>>
    /\ clients = 0
    /\ stop_event = FALSE
    /\ send_tasks = [i \in Ids |-> 0]
    /\ tasks = <<>>
    /\ outbuf = <<>>
    /\ wire = <<>>
    /\ busSent = <<>>
    /\ busFrames = 0
    /\ recvErr = FALSE
    /\ polledAfterErr = FALSE
    /\ shutdowns = 0
    /\ hpc = "setup"
    /\ exc = "none"
    /\ spc = "unstarted"
    /\ event = NoEvent
    /\ client_ready = FALSE

Init == InitWith(ServerBitrates)

\* _next_event(): the bytes of a complete event have arrived, so that the
\* loop of recv and conn.next_event() ends
EventReady == taken < Len(sent)
\* the event _next_event() returns
NextEvent == sent[taken + 1]

\* conn.send_event(e): encode e and append it to the outbound accumulator
send_event(buf, e) == Append(buf, e)

\* setup(), line 48: self.config = dict(self.server.config)
CopyConfig(server) == server

\* handle(), line 69: self.config.setdefault("bitrate", bus_event.bitrate)
SetDefaultBitrate(cfg, b) == IF cfg = 0 THEN b ELSE cfg

ServerConfigAfterSetdefault_Shared(server, b) == SetDefaultBitrate(server, b)
\* setup(), line 48, and handle(), line 69: self.config is a copy, so that
\* setdefault leaves self.server.config as it was
ServerConfigAfterSetdefault(server, b) == server

VersionAccepted_Any(v) == TRUE
\* handle(), line 65: the version test of the BusRequest
VersionAccepted(v) == v = PROTOCOL_VERSION

ReportOpenFailure_Dropped(buf) == buf
\* handle(), line 79: self.conn.send_event(events.RemoteException(e))
ReportOpenFailure(buf) == send_event(buf, RemoteException)

AfterHandshakeFlush_AlwaysRelay(e) == "start_thread"
\* handle(), lines 80 and 89: after the finally clause the exception of a
\* failed open is raised again, otherwise the relay starts
AfterHandshakeFlush(e) == IF e = "none" THEN "start_thread" ELSE "finish"

bus_send_Reversed(log, msg, ok) == <<[id |-> msg.id, data |-> msg.data, ok |-> ok]>> \o log
\* send_msg(), line 174: self.bus.send(msg), recorded with its outcome
bus_send(log, msg, ok) == Append(log, [id |-> msg.id, data |-> msg.data, ok |-> ok])

AfterZeroWaitPoll_CheckClient(e) == IF e = NoEvent THEN "s_select" ELSE "s_queue"
\* _send_to_client(), lines 155 and 162-165: where the thread goes after the
\* zero-wait poll: back into the loop body with an event, on to the flush
\* without one
AfterZeroWaitPoll(e) == IF e = NoEvent THEN "s_flush" ELSE "s_queue"

TaskRegistered_Never(reg, id) == FALSE
\* _receive_from_client(), line 133: event.msg.arbitration_id in self.send_tasks
TaskRegistered(reg, id) == reg[id] # 0

\* ------------------------------------------------------------- the client
\* The client writes one more event to its socket.  Nothing follows a
\* ConnectionClosed: it stands for the end of the client's stream.  What the
\* client writes after handle() was left is never read.
ClientSend ==
    /\ hpc \notin {"finish", "done"}
    /\ Len(sent) < 2 + MaxRelayEvents
    /\ Len(sent) > 0 => sent[Len(sent)] # ConnectionClosed
    /\ \E e \in (IF Len(sent) = 0 THEN FirstEvents
                 ELSE IF Len(sent) = 1 THEN SecondEvents ELSE RelayEvents) :
          sent' = Append(sent, e)
    /\ UNCHANGED <<inVars, cfgVars, busVars, clients, stop_event, taskVars, outVars,
                   hpc, exc, sendThreadVars>>

\* ------------------------------------------------- request handler thread
\* setup()
Setup ==
    /\ hpc = "setup"
    /\ config' = CopyConfig(serverConfig)
    /\ clients' = clients + 1
    /\ hpc' = "hs_request"
    /\ UNCHANGED <<clientVars, inVars, serverConfig, sess, busVars, stop_event, taskVars,
                   outVars, exc, sendThreadVars>>

\* _next_event(): request.recv(256) raises (the peer reset the connection);
\* the exception leaves handle()
RecvFails ==
    /\ hpc \in NextEventPcs
    /\ ~EventReady
    /\ exc' = "socket.error"
    /\ hpc' = "finish"
    /\ UNCHANGED <<clientVars, inVars, cfgVars, busVars, clients, stop_event, taskVars,
                   outVars, sendThreadVars>>

\* handle(), lines 61-69: the first event
HandleBusRequest ==
    /\ hpc = "hs_request"
    /\ EventReady
    /\ taken' = taken + 1
    /\ IF NextEvent.type # "BusRequest"
       THEN /\ exc' = "RemoteServerError: Handshake error"
            /\ hpc' = "finish"
            /\ UNCHANGED <<config, serverConfig>>
       ELSE IF ~VersionAccepted(NextEvent.version)
       THEN /\ exc' = "RemoteServerError: Protocol version mismatch"
            /\ hpc' = "finish"
            /\ UNCHANGED <<config, serverConfig>>
       ELSE /\ config' = SetDefaultBitrate(config, NextEvent.bitrate)
            /\ serverConfig' = ServerConfigAfterSetdefault(serverConfig, NextEvent.bitrate)
            /\ hpc' = "hs_filter"
            /\ UNCHANGED exc
    /\ UNCHANGED <<clientVars, sess, busVars, clients, stop_event, taskVars,
                   outVars, sendThreadVars>>

\* handle(), lines 71-74: the second event
HandleFilterConfig ==
    /\ hpc = "hs_filter"
    /\ EventReady
    /\ taken' = taken + 1
    /\ IF NextEvent.type # "FilterConfig"
       THEN /\ exc' = "RemoteServerError: Handshake error"
            /\ hpc' = "finish"
       ELSE /\ hpc' = "connecting"
            /\ UNCHANGED exc
    /\ UNCHANGED <<clientVars, cfgVars, busVars, clients, stop_event, taskVars,
                   outVars, sendThreadVars>>

\* handle(), lines 76-85: can.interface.Bus(**self.config) returns or raises
OpenBus ==
    /\ hpc = "connecting"
    /\ \E ok \in BOOLEAN :
          /\ openLog' = Append(openLog, [bitrate |-> config, ok |-> ok])
          /\ IF ok
             THEN /\ bus' = "open"
                  /\ outbuf' = send_event(outbuf, BusResponse)
                  /\ clients' = clients + 1
                  /\ UNCHANGED exc
             ELSE /\ outbuf' = ReportOpenFailure(outbuf)
                  /\ exc' = "BusOpenError"
                  /\ UNCHANGED <<bus, clients>>
    /\ hpc' = "hs_flush"
    /\ UNCHANGED <<clientVars, inVars, cfgVars, busSent, busFrames, recvErr,
                   polledAfterErr, shutdowns, stop_event, taskVars, wire, sendThreadVars>>

HandshakeFlush_Deferred ==
    /\ hpc = "hs_flush"
    /\ hpc' = AfterHandshakeFlush(exc)
    /\ UNCHANGED <<clientVars, inVars, cfgVars, busVars, clients, stop_event, taskVars,
                   outVars, exc, sendThreadVars>>

\* handle(), lines 86-87: finally: self.request.sendall(self.conn.next_data()),
\* after which the exception of a failed open goes on
HandshakeFlush ==
    /\ hpc = "hs_flush"
    /\ outbuf' = <<>>
    /\ \E ok \in BOOLEAN :
          IF ok
          THEN /\ wire' = wire \o outbuf
               /\ hpc' = AfterHandshakeFlush(exc)
               /\ UNCHANGED exc
          ELSE /\ exc' = "socket.error"
               /\ hpc' = "finish"
               /\ UNCHANGED wire
    /\ UNCHANGED <<clientVars, inVars, cfgVars, busVars, clients, stop_event, taskVars,
                   sendThreadVars>>

\* handle(), lines 89-90: self.send_thread.start(); self._receive_from_client()
StartRelay ==
    /\ hpc = "start_thread"
    /\ spc' = "s_loop"
    /\ hpc' = "rx_loop"
    /\ UNCHANGED <<clientVars, inVars, cfgVars, busVars, clients, stop_event, taskVars,
                   outVars, exc, event, client_ready>>

\* _receive_from_client(), line 126: while not self.stop_event.is_set()
ReceiveLoopTest ==
    /\ hpc = "rx_loop"
    /\ hpc' = (IF stop_event THEN "finish" ELSE "rx_event")
    /\ UNCHANGED <<clientVars, inVars, cfgVars, busVars, clients, stop_event, taskVars,
                   outVars, exc, sendThreadVars>>

\* send_msg(), lines 173-176: self.bus.send(msg) returns or raises can.CanError
send_msg ==
    /\ hpc = "rx_event"
    /\ EventReady
    /\ NextEvent.type = "CanMessage"
    /\ taken' = taken + 1
    /\ \E ok \in BOOLEAN :
          /\ busSent' = bus_send(busSent, NextEvent, ok)
          /\ hpc' = (IF ok THEN "rx_loop" ELSE "rx_txfail")
    /\ UNCHANGED <<clientVars, cfgVars, bus, openLog, busFrames, recvErr,
                   polledAfterErr, shutdowns, clients, stop_event, taskVars, outVars, exc,
                   sendThreadVars>>

QueueTransmitFail_Stops ==
    /\ hpc = "rx_txfail"
    /\ outbuf' = send_event(outbuf, TransmitFail)
    /\ stop_event' = TRUE
    /\ hpc' = "finish"
    /\ UNCHANGED <<clientVars, inVars, cfgVars, busVars, clients, taskVars, wire, exc,
                   sendThreadVars>>

QueueTransmitFail_Flushes ==
    /\ hpc = "rx_txfail"
    /\ outbuf' = <<>>
    /\ wire' = wire \o send_event(outbuf, TransmitFail)
    /\ hpc' = "rx_loop"
    /\ UNCHANGED <<clientVars, inVars, cfgVars, busVars, clients, stop_event, taskVars,
                   exc, sendThreadVars>>

\* send_msg(), line 177: self.conn.send_event(events.TransmitFail())
QueueTransmitFail ==
    /\ hpc = "rx_txfail"
    /\ outbuf' = send_event(outbuf, TransmitFail)
    /\ hpc' = "rx_loop"
    /\ UNCHANGED <<clientVars, inVars, cfgVars, busVars, clients, stop_event, taskVars,
                   wire, exc, sendThreadVars>>

\* _receive_from_client(), lines 130-131: ConnectionClosed breaks the loop
HandleConnectionClosed ==
    /\ hpc = "rx_event"
    /\ EventReady
    /\ NextEvent.type = "ConnectionClosed"
    /\ taken' = taken + 1
    /\ hpc' = "finish"
    /\ UNCHANGED <<clientVars, cfgVars, busVars, clients, stop_event, taskVars,
                   outVars, exc, sendThreadVars>>

\* _receive_from_client(), lines 132-141
HandlePeriodicStart ==
    /\ hpc = "rx_event"
    /\ EventReady
    /\ NextEvent.type = "PeriodicMessageStart"
    /\ taken' = taken + 1
    /\ IF TaskRegistered(send_tasks, NextEvent.id)
       THEN \* modify_data(event.msg) on the registered task
            /\ tasks' = [tasks EXCEPT ![send_tasks[NextEvent.id]].data = NextEvent.data]
            /\ UNCHANGED send_tasks
       ELSE \* self.bus.send_periodic(...), then register the task
            /\ tasks' = Append(tasks, [id |-> NextEvent.id, data |-> NextEvent.data,
                                       stopped |-> FALSE])
            /\ send_tasks' = [send_tasks EXCEPT ![NextEvent.id] = Len(tasks) + 1]
    /\ hpc' = "rx_loop"
    /\ UNCHANGED <<clientVars, cfgVars, busVars, clients, stop_event, outVars, exc,
                   sendThreadVars>>

\* _receive_from_client(), lines 142-143: self.send_tasks[id].stop(); the
\* subscript raises KeyError when the id has no entry
HandlePeriodicStop ==
    /\ hpc = "rx_event"
    /\ EventReady
    /\ NextEvent.type = "PeriodicMessageStop"
    /\ taken' = taken + 1
    /\ IF send_tasks[NextEvent.id] # 0
       THEN /\ tasks' = [tasks EXCEPT ![send_tasks[NextEvent.id]].stopped = TRUE]
            /\ hpc' = "rx_loop"
            /\ UNCHANGED exc
       ELSE /\ exc' = "KeyError"
            /\ hpc' = "finish"
            /\ UNCHANGED tasks
    /\ UNCHANGED <<clientVars, cfgVars, busVars, clients, stop_event, send_tasks,
                   outVars, sendThreadVars>>

\* finish(), run by the socketserver framework after handle() returned or raised
Finish ==
    /\ hpc = "finish"
    /\ clients' = clients - 1
    /\ stop_event' = TRUE
    /\ hpc' = "done"
    /\ UNCHANGED <<clientVars, inVars, cfgVars, busVars, taskVars, outVars, exc,
                   sendThreadVars>>

\* -------------------------------------------------- "Send to client" thread
\* _next_event_from_bus(timeout), lines 116-122: bus.recv returns None, returns
\* a frame, or raises can.CanError
NextEventFromBus ==
    /\ polledAfterErr' = (polledAfterErr \/ recvErr)
    /\ \/ /\ event' = NoEvent
          /\ UNCHANGED <<busFrames, recvErr>>
       \/ /\ busFrames < MaxBusFrames
          /\ busFrames' = busFrames + 1
          /\ event' = CanMessage(1, busFrames + 1)
          /\ UNCHANGED recvErr
       \/ /\ recvErr' = TRUE
          /\ event' = RemoteException
          /\ UNCHANGED busFrames
    /\ UNCHANGED <<bus, openLog, busSent, shutdowns>>

\* _send_to_client(), lines 147-149: the loop test and, in the loop, the wait
\* for an event on the bus
WaitForBusEvent ==
    /\ spc = "s_loop"
    /\ IF stop_event
       THEN /\ spc' = "s_shutdown"
            /\ UNCHANGED <<busVars, event>>
       ELSE /\ NextEventFromBus
            /\ spc' = "s_select"
    /\ UNCHANGED <<clientVars, inVars, cfgVars, clients, stop_event, taskVars, outVars,
                   hpc, exc, client_ready>>

\* _send_to_client(), line 152: select.select([], [self.request], [], 2);
\* with no event the loop of line 155 is skipped
SelectClient ==
    /\ spc = "s_select"
    /\ client_ready' \in BOOLEAN
    /\ spc' = (IF event = NoEvent THEN "s_flush" ELSE "s_queue")
    /\ UNCHANGED <<clientVars, inVars, cfgVars, busVars, clients, stop_event, taskVars,
                   outVars, hpc, exc, event>>

\* _send_to_client(), lines 156-161: the event is queued; a RemoteException
\* sets the stop event and breaks the loop
QueueBusEvent ==
    /\ spc = "s_queue"
    /\ outbuf' = send_event(outbuf, event)
    /\ IF event.type = "RemoteException"
       THEN /\ stop_event' = TRUE
            /\ spc' = "s_flush"
       ELSE /\ spc' = "s_poll0"
            /\ UNCHANGED stop_event
    /\ UNCHANGED <<clientVars, inVars, cfgVars, busVars, clients, taskVars, wire, hpc, exc,
                   event, client_ready>>

\* _send_to_client(), line 162: the zero-wait poll; None ends the loop of line 155
PollBusAgain ==
    /\ spc = "s_poll0"
    /\ NextEventFromBus
    /\ spc' = AfterZeroWaitPoll(event')
    /\ UNCHANGED <<clientVars, inVars, cfgVars, clients, stop_event, taskVars, outVars,
                   hpc, exc, client_ready>>

FlushToClient_DropsUnwritable ==
    /\ spc = "s_flush"
    /\ outbuf' = <<>>
    /\ IF outbuf # <<>> /\ client_ready
       THEN \E ok \in BOOLEAN :
               IF ok
               THEN wire' = wire \o outbuf /\ spc' = "s_loop"
               ELSE wire' = wire /\ spc' = "s_dead"
       ELSE /\ spc' = "s_loop"
            /\ UNCHANGED wire
    /\ event' = NoEvent
    /\ client_ready' = FALSE
    /\ UNCHANGED <<clientVars, inVars, cfgVars, busVars, clients, stop_event, taskVars,
                   hpc, exc>>

\* _send_to_client(), lines 165-166: the flush; sendall returns or raises, and
\* an exception ends the thread before line 169
FlushToClient ==
    /\ spc = "s_flush"
    /\ IF outbuf # <<>> /\ client_ready
       THEN /\ outbuf' = <<>>
            /\ \E ok \in BOOLEAN :
                  IF ok
                  THEN wire' = wire \o outbuf /\ spc' = "s_loop"
                  ELSE wire' = wire /\ spc' = "s_dead"
       ELSE /\ spc' = "s_loop"
            /\ UNCHANGED outVars
    \* both locals are assigned again (lines 149, 152) before they are next read
    /\ event' = NoEvent
    /\ client_ready' = FALSE
    /\ UNCHANGED <<clientVars, inVars, cfgVars, busVars, clients, stop_event, taskVars,
                   hpc, exc>>

\* _send_to_client(), lines 168-169: self.bus.shutdown()
BusShutdown ==
    /\ spc = "s_shutdown"
    /\ shutdowns' = shutdowns + 1
    /\ spc' = "s_done"
    /\ UNCHANGED <<clientVars, inVars, cfgVars, bus, openLog, busSent, busFrames, recvErr,
                   polledAfterErr, clients, stop_event, taskVars, outVars, hpc, exc,
                   event, client_ready>>

Next ==
    \/ ClientSend
    \/ Setup
    \/ RecvFails
    \/ HandleBusRequest
    \/ HandleFilterConfig
    \/ OpenBus
    \/ HandshakeFlush
    \/ StartRelay
    \/ ReceiveLoopTest
    \/ send_msg
    \/ QueueTransmitFail
    \/ HandleConnectionClosed
    \/ HandlePeriodicStart
    \/ HandlePeriodicStop
    \/ Finish
    \/ WaitForBusEvent
    \/ SelectClient
    \/ QueueBusEvent
    \/ PollBusAgain
    \/ FlushToClient
    \/ BusShutdown

Spec == Init /\ [][Next]_vars

\* ===================================================================
\* Several sessions of one server: what each does to the configuration
\* ===================================================================
\* the variables of the session followed in detail, which stays before setup()
oneSessionVars == <<sent, taken, config, bus, openLog, clients, stop_event, send_tasks,
                    tasks, outbuf, wire, busSent, busFrames, recvErr, polledAfterErr,
                    shutdowns, hpc, exc, spc, event, client_ready>>

\* RemoteServer.__init__: self.config = config, with or without a bitrate
InitConfig == InitWith(SharedServerBitrates)

\* setup() of session s, line 48
SessionSetup(s) ==
    /\ sess[s].pc = "setup"
    /\ sess' = [sess EXCEPT ![s].pc = "hs_request",
                            ![s].config = CopyConfig(serverConfig)]
    /\ UNCHANGED <<serverConfig, oneSessionVars>>

\* handle() of session s, lines 61-69, for a BusRequest of the server's version
SessionBusRequest(s) ==
    /\ sess[s].pc = "hs_request"
    /\ \E b \in SessionRequestBitrates :
          /\ sess' = [sess EXCEPT ![s].pc = "hs_filter",
                                  ![s].request = b,
                                  ![s].config = SetDefaultBitrate(sess[s].config, b)]
          /\ serverConfig' = ServerConfigAfterSetdefault(serverConfig, b)
    /\ UNCHANGED oneSessionVars

\* handle() of session s, lines 71-74: the filters do not touch the bitrate
SessionFilterConfig(s) ==
    /\ sess[s].pc = "hs_filter"
    /\ sess' = [sess EXCEPT ![s].pc = "connecting"]
    /\ UNCHANGED <<serverConfig, oneSessionVars>>

\* handle() of session s, line 77: can.interface.Bus(**self.config)
SessionOpenBus(s) ==
    /\ sess[s].pc = "connecting"
    /\ sess' = [sess EXCEPT ![s].pc = "opened", ![s].opened = sess[s].config]
    /\ UNCHANGED <<serverConfig, oneSessionVars>>

NextConfig ==
    \/ \E s \in SessionIds : SessionSetup(s)
    \/ \E s \in SessionIds : SessionBusRequest(s)
    \/ \E s \in SessionIds : SessionFilterConfig(s)
    \/ \E s \in SessionIds : SessionOpenBus(s)

SpecConfig == InitConfig /\ [][NextConfig]_vars

\* ===================================================================
\* Properties
\* ===================================================================
Count(seq, t) == Cardinality({i \in DOMAIN seq : seq[i].type = t})
IsCanMessage(e) == e.type = "CanMessage"
Frames(seq) == [i \in DOMAIN seq |-> [id |-> seq[i].id, data |-> seq[i].data]]

\* the bus -> client thread was started and _receive_from_client was entered
ReachedRelaying == spc # "unstarted"
Relaying == hpc \in {"rx_loop", "rx_event", "rx_txfail"}
\* the client sent a BusRequest followed by a FilterConfig
HandshakeSent ==
    /\ Len(sent) >= 2
    /\ sent[1].type = "BusRequest"
    /\ sent[2].type = "FilterConfig"
VersionMatches == Len(sent) >= 1 /\ sent[1].version = PROTOCOL_VERSION
OpenSucceeded == Len(openLog) > 0 /\ openLog[1].ok
OpenFailed == Len(openLog) > 0 /\ ~openLog[1].ok
\* the events after the handshake that the client -> bus loop has handled
RelayTaken == SubSeq(sent, 3, taken)
\* the events after the handshake that the client has sent
Batch == SubSeq(sent, 3, Len(sent))
SessionOver == hpc = "done" /\ spc \in {"unstarted", "s_done", "s_dead"}

\* ------------------------------------------------------------------- C1
\* C1 as stated: once the session is over, a handshake of BusRequest then
\* FilterConfig has reached Relaying if and only if the version matched and
\* the open call succeeded.
C1_RelayingIffVersionAndOpen ==
    (hpc = "done" /\ HandshakeSent)
        => (ReachedRelaying <=> (VersionMatches /\ OpenSucceeded))

\* C1, amended: the session reaches Relaying if and only if the version
\* matches, the open call succeeds and the flush of the BusResponse to the
\* socket succeeds.
C1_RelayingIffHandshakeCompletes ==
    /\ ReachedRelaying
          => (HandshakeSent /\ VersionMatches /\ OpenSucceeded /\ wire # <<>>
              /\ wire[1] = BusResponse)
    /\ (hpc = "done" /\ HandshakeSent /\ VersionMatches /\ OpenSucceeded
        /\ Count(wire, "BusResponse") = 1)
          => ReachedRelaying

C1_Witness == hpc = "rx_event" /\ HandshakeSent /\ OpenSucceeded /\ wire = <<BusResponse>>

\* ------------------------------------------------------------------- C2
\* C2: once a BusRequest whose version differs from the server's has been
\* read, the session ends with the version-mismatch error and the bus is
\* never opened: no open call is made and self.bus stays None.
C2_VersionMismatchNeverOpens ==
    (taken >= 1 /\ sent[1].type = "BusRequest" /\ sent[1].version # PROTOCOL_VERSION)
        => /\ exc = "RemoteServerError: Protocol version mismatch"
           /\ hpc \in {"finish", "done"}
           /\ openLog = <<>>
           /\ bus = "None"
           /\ ~ReachedRelaying

C2_Witness ==
    /\ hpc = "done"
    /\ taken = 1
    /\ sent[1].type = "BusRequest"
    /\ sent[1].version # PROTOCOL_VERSION
    /\ Len(sent) >= 2

C4_FailureSurfacedToClient ==
    (hpc = "done" /\ exc \in {"RemoteServerError: Handshake error",
                              "RemoteServerError: Protocol version mismatch",
                              "BusOpenError"})
        => wire # <<>>

\* ------------------------------------------------------------------- C5
\* C5 as stated: when the client sent a batch of N CanMessage events and the
\* client -> bus loop has ended without an exception, bus.send was called for
\* all N, in order.
C5_WholeBatchSent ==
    (/\ ReachedRelaying
     /\ hpc \in {"finish", "done"}
     /\ exc = "none"
     /\ \A i \in DOMAIN Batch : IsCanMessage(Batch[i]))
        => Frames(busSent) = Frames(Batch)

\* C5, amended: bus.send is called exactly once for each CanMessage the
\* client -> bus loop has taken, in the order received; events of a batch
\* stay unsent after the loop ended without an exception only when the
\* bus -> client loop set the stop flag after a bus receive error.
C5_SendsFollowTakenMessages ==
    /\ Frames(busSent) = Frames(SelectSeq(RelayTaken, IsCanMessage))
    /\ (ReachedRelaying /\ hpc \in {"finish", "done"} /\ exc = "none" /\ taken < Len(sent))
          => recvErr

C5_Witness ==
    /\ Len(busSent) = 2
    /\ busSent[1].data # busSent[2].data
    /\ Frames(busSent) = Frames(Batch)
    /\ recvErr
    /\ Relaying

\* ------------------------------------------------------------------- C6
\* C6 as stated: a PeriodicMessageStop for an id without a registered task
\* raises nothing: no KeyError ever leaves the client -> bus loop.
C6_StopUnregisteredIsNoOp == exc # "KeyError"

\* ------------------------------------------------------------------- C7
\* C7 as stated: a stopped task is removed from the registry, so that the
\* registry never holds an entry for a stopped task.
C7_StoppedTaskRemoved ==
    \A i \in Ids : send_tasks[i] # 0 => ~tasks[send_tasks[i]].stopped

\* ------------------------------------------------------------------- C8
\* C8: for every arbitration id the bus adapter has created at most one
\* task, however many PeriodicMessageStart events were handled; that task is
\* the registered one, it carries the payload of the most recent start and,
\* as long as no PeriodicMessageStop for the id was handled, it is active.
C8_OneTaskPerId ==
    \A i \in Ids :
        LET created == {k \in DOMAIN tasks : tasks[k].id = i}
            starts == SelectSeq(RelayTaken,
                        LAMBDA e : e.type = "PeriodicMessageStart" /\ e.id = i)
            stops == SelectSeq(RelayTaken,
                        LAMBDA e : e.type = "PeriodicMessageStop" /\ e.id = i)
        IN  /\ Cardinality(created) <= 1
            /\ starts = <<>> => (created = {} /\ send_tasks[i] = 0)
            /\ starts # <<>>
                 => /\ created = {send_tasks[i]}
                    /\ tasks[send_tasks[i]].data = starts[Len(starts)].data
                    /\ stops = <<>> => ~tasks[send_tasks[i]].stopped

C8_Witness ==
    /\ Len(RelayTaken) = 2
    /\ RelayTaken[1] = PeriodicMessageStart(1, 1)
    /\ RelayTaken[2] = PeriodicMessageStart(1, 2)
    /\ tasks = <<[id |-> 1, data |-> 2, stopped |-> FALSE]>>

\* ------------------------------------------------------------------- C9
\* C9 as stated, for a bus -> client thread that ran to its end (no socket
\* write raised): after a bus receive error exactly one RemoteException was
\* written to the socket, the bus was shut down and bus.recv was not called
\* again after the error.
C9_ReceiveErrorDelivered ==
    (recvErr /\ spc = "s_done")
        => /\ Count(wire, "RemoteException") = 1
           /\ shutdowns = 1
           /\ ~polledAfterErr

\* ------------------------------------------------------------------ C10
FailedSends == Cardinality({k \in DOMAIN busSent : ~busSent[k].ok})

\* C10 as stated, for a session whose client neither closed nor reset the
\* connection and whose socket writes all succeeded: once the session is
\* over, one TransmitFail was written to the socket for each failed bus.send.
C10_TransmitFailDelivered ==
    (/\ hpc = "done"
     /\ spc = "s_done"
     /\ exc = "none"
     /\ Count(RelayTaken, "ConnectionClosed") = 0)
        => Count(wire, "TransmitFail") = FailedSends

\* C10, amended: each failed bus.send queues exactly one TransmitFail in the
\* outbound buffer, which a later flush of the bus -> client loop writes to
\* the socket at most once (none is lost unless a socket write raised), and
\* the failure neither ends the client -> bus loop nor sets the stop flag.
C10_TransmitFailQueued ==
    LET queued == FailedSends - (IF hpc = "rx_txfail" THEN 1 ELSE 0)
        seen == Count(wire, "TransmitFail") + Count(outbuf, "TransmitFail")
    IN  /\ seen <= queued
        /\ spc # "s_dead" => seen = queued
        /\ hpc = "rx_txfail" => exc = "none"
        /\ (stop_event /\ Relaying) => recvErr
        /\ (FailedSends > 0 /\ ~Relaying)
              => \/ recvErr
                 \/ exc # "none"
                 \/ (taken > 0 /\ sent[taken] = ConnectionClosed)

C10_Witness ==
    /\ Relaying
    /\ ~stop_event
    /\ FailedSends = 1
    /\ Count(wire, "TransmitFail") = 1

\* ------------------------------------------------------------------ C11
\* C11 as stated: after finish() has run, the session no longer occurs in
\* server.clients.
C11_DeregisteredAfterFinish == hpc = "done" => clients = 0

\* ------------------------------------------------------------------ C12
\* C12 as stated: once a session whose open call succeeded is over (the
\* handler has finished and the bus -> client thread is not running),
\* bus.shutdown was called exactly once.
C12_ShutdownExactlyOnce == (OpenSucceeded /\ SessionOver) => shutdowns = 1

\* ------------------------------------------------------------------ C13
\* C13: every session opens its bus with the server's configured bitrate when
\* the server configuration fixes one, and otherwise with the bitrate of its
\* own BusRequest, whatever the other sessions requested; no session changes
\* the server's configuration.
C13_BitratePerSession ==
    /\ [](\A s \in SessionIds :
            sess[s].pc = "opened"
                => sess[s].opened = (IF serverConfig # 0 THEN serverConfig
                                     ELSE sess[s].request))
    /\ [][serverConfig' = serverConfig]_vars

C13_Witness ==
    /\ serverConfig = 0
    /\ sess[1].pc = "opened"
    /\ sess[2].pc = "opened"
    /\ sess[1].opened = 5
    /\ sess[2].opened = 6

\* ------------------------------------------------------------------ C14
\* line 152 has run in the current iteration of the bus -> client loop
ClientChecked == spc \in {"s_queue", "s_poll0", "s_flush"}
\* the step is a zero-wait poll of the bus (line 162)
ZeroWaitPollStep == spc = "s_poll0" /\ spc' # "s_poll0"

\* C14 as stated: the writability check of an iteration happens after the
\* last zero-wait bus poll of that iteration, so that no zero-wait poll is
\* made once the iteration has checked writability.
C14_WritabilityCheckedAfterDrain == [][ZeroWaitPollStep => ~ClientChecked]_vars

\* C14, amended: the writability check of an iteration is made directly after
\* the bounded-wait poll and before every zero-wait poll of the iteration;
\* when the flush is reached every frame polled so far has been queued (it is
\* in the outbound buffer or already on the socket) and no polled event is
\* left unqueued.
C14_DrainedBeforeFlush ==
    /\ [][(spc' = "s_select" /\ spc # "s_select") => spc = "s_loop"]_vars
    /\ [][ZeroWaitPollStep => ClientChecked]_vars
    /\ [](spc = "s_flush"
            => /\ event.type \in {"None", "RemoteException"}
               /\ event.type = "RemoteException"
                    => stop_event /\ Count(outbuf, "RemoteException") = 1
               /\ Count(wire \o outbuf, "CanMessage") = busFrames)

\* the iteration found the client writable, queued a first frame, polled a
\* second one with zero wait and queued it: both wait for the flush
C14_Witness ==
    /\ spc = "s_poll0"
    /\ client_ready
    /\ wire = <<BusResponse>>
    /\ outbuf = <<CanMessage(1, 1), CanMessage(1, 2)>>
    /\ event = CanMessage(1, 2)

\* ------------------------------------------------------------------ C15
\* the handler thread has entered send_msg's except branch and is at the call
\* conn.send_event(TransmitFail()) of line 177
HandlerAtQueue == hpc = "rx_txfail"
\* the bus -> client thread is at conn.send_event (line 156) or at
\* conn.data_ready() / conn.next_data() (lines 165-166)
SenderAtBuffer == spc \in {"s_queue", "s_flush"}

\* C15 as stated: the client -> bus task is never at its queue operation on
\* the outbound buffer while the bus -> client task is at a queue, has-data or
\* drain operation on the same buffer.
C15_WritersSerialized == ~(HandlerAtQueue /\ SenderAtBuffer)

\* ------------------------------------------------------------------ C16
\* the step calls request.sendall: queued events leave the outbound buffer
\* for the socket, or are lost with the exception sendall raises
SendallStep == wire' # wire \/ (outbuf # <<>> /\ outbuf' = <<>>)
\* the step returns from _next_event(), whose loop calls request.recv, or
\* leaves it with the exception recv raises
RecvStep == taken' # taken \/ (exc = "none" /\ exc' = "socket.error" /\ outbuf' = outbuf)
\* both relay tasks exist: the bus -> client thread was started and has not
\* ended, the handler is in _receive_from_client
TasksConcurrent == spc \notin {"unstarted", "s_done", "s_dead"} /\ Relaying

\* C16: request.recv is called only by the handler thread, inside
\* _next_event; request.sendall is called by the handler only for the flush of
\* the handshake, which is over before the bus -> client thread is started,
\* and afterwards only by the bus -> client thread.
C16_SocketEndsConfined ==
    /\ [][SendallStep => \/ hpc = "hs_flush" /\ spc = "unstarted" /\ spc' = "unstarted"
                         \/ spc = "s_flush" /\ hpc' = hpc]_vars
    /\ [][RecvStep => hpc \in NextEventPcs /\ hpc' # hpc /\ spc' = spc]_vars
    /\ [](spc # "unstarted" => hpc \in {"rx_loop", "rx_event", "rx_txfail", "finish", "done"})

\* both tasks run, the bus -> client thread has written to the socket and the
\* handler has read relay events from it, one of them a failed send
C16_Witness ==
    /\ TasksConcurrent
    /\ Len(wire) >= 2
    /\ taken >= 4
    /\ FailedSends >= 1

\* ------------------------------------------------------------------ C17
\* bus.recv has been called: it returned a frame or raised
BusPolled == busFrames > 0 \/ recvErr

\* C17: once a relay loop has started, the BusResponse is the first event on
\* the socket and the only BusResponse; events of relaying reach the socket
\* only behind it, and the bus is polled only after it was written.
C17_BusResponseFirst ==
    /\ (ReachedRelaying \/ BusPolled \/ Len(wire) >= 2)
          => /\ wire # <<>>
             /\ wire[1] = BusResponse
             /\ Count(wire, "BusResponse") = 1
    /\ \A i \in DOMAIN wire :
          wire[i].type \in {"CanMessage", "TransmitFail"} => i > 1 /\ wire[1] = BusResponse
    /\ Relaying => ReachedRelaying

\* relaying has put a frame, a TransmitFail and the bus error on the socket
C17_Witness ==
    /\ Len(wire) = 4
    /\ wire[1] = BusResponse
    /\ Count(wire, "CanMessage") = 1
    /\ Count(wire, "TransmitFail") = 1
    /\ Count(wire, "RemoteException") = 1

\* ------------------------------------------------------------------ C18
\* the client -> bus loop was entered and ended on a ConnectionClosed event or
\* on a failure of the socket read
ReceiveLoopEnded ==
    /\ ReachedRelaying
    /\ hpc = "done"
    /\ \/ exc = "socket.error"
       \/ exc = "none" /\ taken > 2 /\ sent[taken] = ConnectionClosed

\* C18 as stated, for the runs in which the bus -> client thread has come to
\* rest: after the client -> bus loop ended, the stop flag is set and the
\* bus -> client thread has left its loop and shut the bus down.
C18_ReceiveEndShutsBusDown ==
    (ReceiveLoopEnded /\ spc \in {"s_done", "s_dead"})
        => stop_event /\ spc = "s_done" /\ shutdowns = 1

\* ------------------------------------------------------------------ C19
\* the step calls bus.send (line 174) or bus.send_periodic (line 139)
BusUseStep == busSent' # busSent \/ Len(tasks') > Len(tasks)

\* C19 as stated: the client -> bus loop calls neither send nor send_periodic
\* on the bus once the bus -> client loop has called shutdown on it.
C19_NoBusUseAfterShutdown == [][BusUseStep => shutdowns = 0]_vars

\* ------------------------------------------------------------------ C20
\* the frames among the events of seq, by the number bus.recv gave them
BusFramesOf(seq) ==
    LET f == SelectSeq(seq, IsCanMessage) IN [i \in DOMAIN f |-> f[i].data]
\* the event the bus -> client thread has polled and not yet queued
PolledNotQueued ==
    IF spc \in {"s_select", "s_queue"} /\ event # NoEvent THEN <<event>> ELSE <<>>
FirstFrames(n) == [i \in 1..n |-> i]

\* C20: the frames on the socket are the first frames the bus delivered, in
\* the order of delivery and each once; while the bus -> client thread has
\* not died, the frames not yet written wait in the outbound buffer behind
\* one another, ahead of the frame just polled; and each write puts the whole
\* buffer on the socket behind what was written before.
C20_BusEventsInOrder ==
    /\ [](BusFramesOf(wire) = FirstFrames(Len(BusFramesOf(wire))))
    /\ [](spc # "s_dead"
            => BusFramesOf(wire \o outbuf \o PolledNotQueued) = FirstFrames(busFrames))
    /\ [][wire' # wire => wire' = wire \o outbuf /\ outbuf' = <<>>]_vars
    /\ [][(spc = "s_flush" /\ spc' = "s_loop" /\ wire' = wire) => outbuf' = outbuf]_vars

\* a frame queued in an iteration that did not write it is still in the
\* buffer when the next iteration has polled the following frame
C20_Witness ==
    /\ Relaying
    /\ spc = "s_select"
    /\ wire = <<BusResponse>>
    /\ outbuf = <<CanMessage(1, 1)>>
    /\ event = CanMessage(1, 2)

====
